---------------------------- MODULE Spec2Model ----------------------------
(***************************************************************************)
(* HGSmartApiClient (custom_components/hgsmart/api.py): the token state    *)
(* of one client instance, the coroutines running its operations on the    *)
(* asyncio event loop, and the vendor server as a source of arbitrary      *)
(* responses.  A coroutine runs without interruption between two network   *)
(* awaits, so one action is either the start of an operation up to its     *)
(* first request, or the arrival of a response and everything the code     *)
(* does with it up to the next request or the return to the caller.        *)
(*                                                                         *)
(* Around the client, the integration (custom_components/hgsmart/          *)
(* __init__.py, number.py): the records of hass.data[DOMAIN], the feed     *)
(* service handler split at its await of send_feed_command, the manual     *)
(* feed portions number entity, and async_unload_entry.                    *)
(***************************************************************************)
EXTENDS Integers, Sequences, FiniteSets, TLC

(***************************************************************************)
(* Bounds of the model.                                                    *)
(***************************************************************************)
\* token-bearing responses the server sends in one run
MaxIssued == 3
\* frames (requests awaited or suspended) one coroutine may hold
MaxDepth == 3
\* device ids one list of the feed service data may hold
MaxTargets == 3

(***************************************************************************)
(* Values.                                                                 *)
(***************************************************************************)
\* Python's None (JSON null)
None == "<None>"
\* a key that a JSON object does not hold
KeyAbsent == "<absent>"
\* the empty string
Empty == ""

Tasks == {"t1", "t2"}
Devices == {"dev1"}
Codes == {200, 401, 500}

\* the tokens of the n-th token-bearing response
AccessTok(n) == "a" \o ToString(n)
RefreshTok(n) == "r" \o ToString(n)

\* truth value of a str | None: None and "" are false
Truthy(v) == v # None /\ v # Empty /\ v # KeyAbsent

\* str(v) as an f-string renders it
Str(v) == IF v = None THEN "None" ELSE v

(***************************************************************************)
(* Headers: the Authorization entry of the header dict.                    *)
(***************************************************************************)
NoAuthorization == [present |-> FALSE, value |-> Empty]
Authorization(text) == [present |-> TRUE, value |-> text]

\* _get_headers without the test that a token is held
GetHeadersUnconditional(use_token, tok) ==
    IF use_token THEN Authorization("Bearer " \o Str(tok)) ELSE NoAuthorization

\* _get_headers(use_token) with self.access_token = tok
GetHeaders(use_token, tok) ==
    IF use_token /\ Truthy(tok)
    THEN Authorization("Bearer " \o Str(tok))
    ELSE NoAuthorization

\* login: _get_headers(use_token=False), then the literal "Bearer null"
LoginHeaders(tok) ==
    LET headers == GetHeaders(FALSE, tok) IN Authorization("Bearer null")

\* send_feed_command builds its own header dict
FeedHeaders(tok) == Authorization("Bearer " \o Str(tok))

(***************************************************************************)
(* The feed command encoding.                                              *)
(***************************************************************************)
HexDigits ==
    <<"0", "1", "2", "3", "4", "5", "6", "7",
      "8", "9", "a", "b", "c", "d", "e", "f">>

\* format(n, "x") for n >= 0
RECURSIVE ToHex(_)
ToHex(n) ==
    IF n < 16 THEN HexDigits[n + 1]
    ELSE ToHex(n \div 16) \o HexDigits[(n % 16) + 1]

\* f"{n:x}": no padding
FormatX(n) == ToHex(n)

\* f"{n:02x}": zero-padded to a width of at least 2
Format02x(n) ==
    LET s == ToHex(n) IN IF Len(s) < 2 THEN "0" \o s ELSE s

\* command_value of send_feed_command at local minute tm_min
CommandValue(tm_min, portions) ==
    LET minute_hex == Format02x(tm_min)
        portions_hex == Format02x(portions)
    IN  "0120" \o minute_hex \o portions_hex

\* time.localtime().tm_min
Minutes == 0 .. 59
MIN_PORTIONS == 1
MAX_PORTIONS == 9
Portions == MIN_PORTIONS .. MAX_PORTIONS

(***************************************************************************)
(* Server outcomes of one request.                                         *)
(***************************************************************************)
\* session.<method>() raised (timeout, connection error) or response.json()
\* raised (body is not JSON)
Failure(kind) ==
    [kind |-> kind, code |-> 0, data |-> KeyAbsent,
     accessToken |-> KeyAbsent, refreshToken |-> KeyAbsent]

\* a JSON object {"code": code, "data": data}; data = "obj" is an object
\* holding the keys accessToken / refreshToken that are not KeyAbsent
Json(code, data, a, r) ==
    [kind |-> "json", code |-> code, data |-> data,
     accessToken |-> a, refreshToken |-> r]

Failures == {Failure("error"), Failure("nonjson")}

\* what the server may answer to login and refreshToken; n numbers the tokens
TokenResponses(n) ==
    Failures
    \cup {Json(c, d, KeyAbsent, KeyAbsent) : c \in Codes, d \in {KeyAbsent, None}}
    \cup {Json(c, "obj", a, r) :
            c \in Codes,
            a \in {KeyAbsent, None, Empty, AccessTok(n)},
            r \in {KeyAbsent, None, Empty, RefreshTok(n)}}

\* what the server may answer to the other requests
DataResponses ==
    Failures
    \cup {Json(c, d, KeyAbsent, KeyAbsent) :
            c \in Codes, d \in {KeyAbsent, None, "obj"}}

\* the response carries a token the server has newly issued
IssuesToken(resp) ==
    Truthy(resp.accessToken) \/ Truthy(resp.refreshToken)

(***************************************************************************)
(* The bodies of the operations once a response is in: what is returned or *)
(* raised, and the token fields afterwards.                                *)
(***************************************************************************)
Return(v, at, rt) == [exc |-> FALSE, ret |-> v, at |-> at, rt |-> rt]
Raise(at, rt) == [exc |-> TRUE, ret |-> None, at |-> at, rt |-> rt]

\* no handler: the exception leaves the function
ExceptNothing(r, failure) == r

\* except Exception: return <failure>
Except(r, failure) ==
    IF r.exc THEN Return(failure, r.at, r.rt) ELSE r

\* the statements that store the tokens of a code-200 response:
\*   self.access_token = data["data"]["accessToken"]
\*   self.refresh_token = data["data"]["refreshToken"]
\* followed by return True
StoreTokens(resp, at, rt) ==
    IF resp.data # "obj" THEN Raise(at, rt)
    ELSE IF resp.accessToken = KeyAbsent THEN Raise(at, rt)
    ELSE IF resp.refreshToken = KeyAbsent THEN Raise(resp.accessToken, rt)
    ELSE Return("True", resp.accessToken, resp.refreshToken)

\* login, from the arrival of the response
LoginTry(resp, at, rt) ==
    IF resp.kind # "json" THEN Raise(at, rt)
    ELSE IF resp.code = 200 THEN StoreTokens(resp, at, rt)
    ELSE Return("False", at, rt)

Login(resp, at, rt) == Except(LoginTry(resp, at, rt), "False")

\* refresh_access_token, from the arrival of the response
RefreshTry(resp, at, rt) ==
    IF resp.kind # "json" THEN Raise(at, rt)
    ELSE IF resp.code = 200 THEN StoreTokens(resp, at, rt)
    ELSE Return("False", at, rt)

Refresh(resp, at, rt) == Except(RefreshTry(resp, at, rt), "False")

\* data.get("data", default)
DataGet(resp, default) ==
    IF resp.data = KeyAbsent THEN default ELSE resp.data

\* get_feeder_stats / get_device_attributes, from the arrival of the response
ReadTry(resp, at, rt) ==
    IF resp.kind # "json" THEN Raise(at, rt)
    ELSE IF resp.code = 200 THEN Return(DataGet(resp, None), at, rt)
    ELSE Return(None, at, rt)

\* a read that drops the access token when the server answers 401
ReadDroppingToken(resp, at, rt) ==
    IF resp.kind = "json" /\ resp.code = 401
    THEN Return(None, None, rt)
    ELSE Except(ReadTry(resp, at, rt), None)

GetFeederStats(resp, at, rt) == Except(ReadTry(resp, at, rt), None)
GetDeviceAttributes(resp, at, rt) == Except(ReadTry(resp, at, rt), None)

\* send_feed_command, from the arrival of the response
FeedTry(resp, at, rt) ==
    IF resp.kind # "json" THEN Raise(at, rt)
    ELSE IF resp.code = 200 THEN Return("True", at, rt)
    ELSE Return("False", at, rt)

SendFeedCommand(resp, at, rt) == Except(FeedTry(resp, at, rt), "False")

\* get_devices, from the arrival of the response, where it does not call
\* refresh_access_token
DevicesTry(resp, at, rt) ==
    IF resp.kind # "json" THEN Raise(at, rt)
    ELSE IF resp.code = 200 THEN Return(DataGet(resp, "[]"), at, rt)
    ELSE Return("[]", at, rt)

\* the branch of get_devices that awaits refresh_access_token
AuthExpired(resp) == resp.kind = "json" /\ resp.code = 401

\* a value or an exception leaving `depth` nested get_devices calls
RECURSIVE Unwind(_, _)
Unwind(r, depth) ==
    IF depth = 0 THEN r ELSE Unwind(Except(r, "[]"), depth - 1)


(***************************************************************************)
(* State.                                                                  *)
(***************************************************************************)
VARIABLES
    access_token,    \* self.access_token
    refresh_token,   \* self.refresh_token
    stack,           \* per coroutine: its calls, each awaiting inside its session
    open_sessions,   \* per coroutine: ClientSession objects entered and not exited
    result,          \* per coroutine: the operation it runs and what it returned
    issued,          \* server: token-bearing responses sent so far
    enabled,         \* the coroutines the caller schedules on this client
    sent,            \* per coroutine: requests sent by its current operation
    last,            \* the latest return of login or refresh_access_token
    overlap,         \* per coroutine: another one was in flight during its operation
    hass_data,       \* hass.data[DOMAIN]: the record of each loaded entry
    svc,             \* the feed service call: its locals and where it stands
    unload           \* how the latest async_unload_entry ended

clientVars ==
    <<access_token, refresh_token, stack, open_sessions, result, issued,
      enabled, sent, last, overlap>>

hassVars == <<hass_data, svc, unload>>

vars ==
    <<access_token, refresh_token, stack, open_sessions, result, issued,
      enabled, sent, last, overlap, hass_data, svc, unload>>

Running(t) == stack[t] # <<>>
Top(t) == stack[t][Len(stack[t])]

\* a call suspended at its request: what it sent, and the tokens the client
\* held when the call was entered (its headers are built before any await)
Frame(fn, url, auth, body, args, at, rt) ==
    [fn |-> fn, url |-> url, auth |-> auth, body |-> body, args |-> args,
     pre_at |-> at, pre_rt |-> rt]

Idle ==
    [state |-> "idle", op |-> "", ret |-> None, raised |-> FALSE,
     outcome |-> "none"]

Event(fn, ret, requested, pre_at, pre_rt, r, resp) ==
    [fn |-> fn, ret |-> ret, requested |-> requested,
     pre_at |-> pre_at, pre_rt |-> pre_rt, post_at |-> r.at, post_rt |-> r.rt,
     resp_at |-> resp.accessToken, resp_rt |-> resp.refreshToken]

NoEvent ==
    Event("", None, FALSE, None, None, Return(None, None, None),
          Failure("none"))

\* what kind of answer the server gave to a request of fn
Outcome(resp, fn) ==
    IF resp.kind = "error" THEN "transport"
    ELSE IF resp.kind = "nonjson" THEN "nonjson"
    ELSE IF resp.code # 200 THEN "code" \o ToString(resp.code)
    ELSE IF /\ fn \in {"login", "refresh_access_token"}
            /\ \/ resp.data # "obj"
               \/ resp.accessToken = KeyAbsent
               \/ resp.refreshToken = KeyAbsent
         THEN "keys"
    ELSE "ok"

\* the server issues at most MaxIssued token pairs
Allowed(resp) == IssuesToken(resp) => issued < MaxIssued

(***************************************************************************)
(* The integration around the client: config entries, the device registry, *)
(* the feed service call and the number entity.                            *)
(***************************************************************************)
Domain == "hgsmart"

\* config entries of the integration, and the feeders of the account
Entries == {"e1"}
FeederIds == {"dev1", "dev2"}

\* device ids a service call can name: two feeders, a device of another
\* integration, and an id the registry does not know
HaIds == {"h1", "h2", "h3", "h4"}

\* device.identifiers of each registered device
Registry ==
    [h \in {"h1", "h2", "h3"} |->
        IF h = "h1" THEN {<<"zha", "z0">>, <<Domain, "dev1">>}
        ELSE IF h = "h2" THEN {<<Domain, "dev2">>}
        ELSE {<<"zha", "z1">>}]

\* dev_reg.async_get(ha_device_id) is not None
Registered(ha_device_id) == ha_device_id \in DOMAIN Registry

\* the identifier of the device in this integration's domain, or None
OurDeviceId(ha_device_id) ==
    LET ours == {identifier \in Registry[ha_device_id] : identifier[1] = Domain}
    IN  IF ours = {} THEN None ELSE (CHOOSE identifier \in ours : TRUE)[2]

\* the attributes HGSmartApiClient defines
ClientAttributes ==
    {"base_url", "client_id", "username", "password", "access_token",
     "refresh_token", "_get_headers", "login", "refresh_access_token",
     "get_devices", "get_feeder_stats", "get_device_attributes",
     "send_feed_command"}

\* the record async_setup_entry stores, after the number platform is set up
EntryRecord ==
    [coordinator |-> FeederIds,
     api |-> "api",
     manual_feed_portions |-> [device_id \in FeederIds |-> 1]]

\* range of the manual feed portions entity
NativeMin == 1
NativeMax == 10

\* one key of the service data holding device ids: absent, a str, a list, or
\* a value of another type
Field(kind, ids) == [kind |-> kind, ids |-> ids]
AbsentField == Field("absent", <<>>)

\* the service data; portions is <<>> when the key is absent
Call(portions, target, device_id) ==
    [portions |-> portions, target |-> target, device_id |-> device_id]

NoRequest == Frame("", "", NoAuthorization, Empty, <<>>, None, None)

\* no feed service call yet
IdleService ==
    [state |-> "idle",
     call |-> Call(<<>>, AbsentField, AbsentField),
     target_device_ids |-> <<>>,
     portions |-> 1,
     i |-> 0,
     processed_any |-> FALSE,
     request |-> NoRequest,
     fed |-> <<>>,
     error |-> Empty]

NotUnloaded ==
    [state |-> "none", entry_id |-> None, ret |-> None, exc |-> Empty,
     closed |-> FALSE]

\* before async_setup_entry
NotSetUp ==
    /\ hass_data = [entry_id \in {} |-> EntryRecord]
    /\ svc = IdleService
    /\ unload = NotUnloaded

\* after async_setup_entry returned True for every entry
SetUp ==
    /\ hass_data = [entry_id \in Entries |-> EntryRecord]
    /\ svc = IdleService
    /\ unload = NotUnloaded

InitClient ==
    /\ access_token = None
    /\ refresh_token = None
    /\ stack = [t \in Tasks |-> <<>>]
    /\ open_sessions = [t \in Tasks |-> 0]
    /\ result = [t \in Tasks |-> Idle]
    /\ issued = 0
    /\ sent = [t \in Tasks |-> <<>>]
    /\ last = NoEvent
    /\ overlap = [t \in Tasks |-> FALSE]

\* one caller at a time
Init == InitClient /\ enabled = {"t1"} /\ NotSetUp

\* a client on which login has succeeded once
LoggedIn ==
    LET resp == Json(200, "obj", AccessTok(1), RefreshTok(1))
        r == Login(resp, None, None)
    IN  /\ access_token = r.at
        /\ refresh_token = r.rt
        /\ stack = [t \in Tasks |-> <<>>]
        /\ open_sessions = [t \in Tasks |-> 0]
        /\ result = [t \in Tasks |->
                       IF t = "t1"
                       THEN [state |-> "done", op |-> "login", ret |-> r.ret,
                             raised |-> r.exc, outcome |-> Outcome(resp, "login")]
                       ELSE Idle]
        /\ issued = 1
        /\ sent = [t \in Tasks |-> IF t = "t1" THEN <<"login">> ELSE <<>>]
        /\ last = Event("login", r.ret, TRUE, None, None, r, resp)
        /\ overlap = [t \in Tasks |-> FALSE]

\* two callers sharing that client
InitConcurrent == LoggedIn /\ enabled = Tasks /\ NotSetUp

\* the integration set up on that client; the client is called by the
\* integration only
InitService == LoggedIn /\ enabled = {} /\ SetUp

(***************************************************************************)
(* Entering and leaving an operation.                                      *)
(***************************************************************************)
\* the operation op starts on coroutine t and suspends at its first request
Start(t, op, frame) ==
    /\ t \in enabled
    /\ ~Running(t)
    /\ stack' = [stack EXCEPT ![t] = <<frame>>]
    /\ open_sessions' = [open_sessions EXCEPT ![t] = @ + 1]
    /\ result' = [result EXCEPT ![t] =
                    [state |-> "running", op |-> op, ret |-> None,
                     raised |-> FALSE, outcome |-> "none"]]
    /\ sent' = [sent EXCEPT ![t] = <<frame.fn>>]
    /\ overlap' = [u \in Tasks |->
                     IF u = t THEN \E v \in Tasks \ {t} : Running(v)
                     ELSE overlap[u] \/ Running(u)]
    /\ UNCHANGED <<access_token, refresh_token, issued, enabled, last>>
    /\ UNCHANGED hassVars

\* the outermost call of t returns r (or raises): every session it holds exits
Finish(t, r, outcome) ==
    /\ stack' = [stack EXCEPT ![t] = <<>>]
    /\ open_sessions' = [open_sessions EXCEPT ![t] = @ - Len(stack[t])]
    /\ result' = [result EXCEPT ![t] =
                    [@ EXCEPT !.state = "done", !.ret = r.ret,
                              !.raised = r.exc, !.outcome = outcome]]
    /\ access_token' = r.at
    /\ refresh_token' = r.rt
    /\ UNCHANGED hassVars

\* a nested call is entered: one more session, one more request
Push(t, below, frame) ==
    /\ stack' = [stack EXCEPT ![t] = Append(below, frame)]
    /\ open_sessions' = [open_sessions EXCEPT ![t] = @ - Len(stack[t]) + Len(below) + 1]
    /\ sent' = [sent EXCEPT ![t] = Append(@, frame.fn)]
    /\ UNCHANGED result
    /\ UNCHANGED hassVars


(***************************************************************************)
(* The operations up to their first request.                               *)
(***************************************************************************)
LoginFrame(at, rt) ==
    Frame("login", "/oauth/login", LoginHeaders(at), "credentials", <<>>, at, rt)

RefreshFrame(at, rt) ==
    Frame("refresh_access_token", "/oauth/refreshToken",
          GetHeaders(TRUE, at), rt, <<>>, at, rt)

DevicesFrame(at, rt) ==
    Frame("get_devices", "/app/device/list", GetHeaders(TRUE, at), Empty,
          <<>>, at, rt)

StatsFrame(device_id, at, rt) ==
    Frame("get_feeder_stats", "/app/device/feeder/summary/" \o device_id,
          GetHeaders(TRUE, at), Empty, <<device_id>>, at, rt)

AttributesFrame(device_id, at, rt) ==
    Frame("get_device_attributes", "/app/device/attribute/" \o device_id,
          GetHeaders(TRUE, at), Empty, <<device_id>>, at, rt)

FeedFrame(device_id, tm_min, portions, at, rt) ==
    Frame("send_feed_command", "/app/device/attribute/" \o device_id,
          FeedHeaders(at), CommandValue(tm_min, portions),
          <<device_id, tm_min, portions>>, at, rt)

Call_login(t) ==
    Start(t, "login", LoginFrame(access_token, refresh_token))

\* refresh_access_token called by the integration; without a refresh token it
\* returns False before any request
Call_refresh_access_token(t) ==
    IF Truthy(refresh_token)
    THEN Start(t, "refresh_access_token",
               RefreshFrame(access_token, refresh_token))
    ELSE /\ t \in enabled
         /\ ~Running(t)
         /\ result' = [result EXCEPT ![t] =
                         [state |-> "done", op |-> "refresh_access_token",
                          ret |-> "False", raised |-> FALSE,
                          outcome |-> "none"]]
         /\ sent' = [sent EXCEPT ![t] = <<>>]
         /\ last' = Event("refresh_access_token", "False", FALSE,
                          access_token, refresh_token,
                          Return("False", access_token, refresh_token),
                          Failure("none"))
         /\ overlap' = [u \in Tasks |->
                          IF u = t THEN \E v \in Tasks \ {t} : Running(v)
                          ELSE overlap[u] \/ Running(u)]
         /\ UNCHANGED <<access_token, refresh_token, stack, open_sessions,
                        issued, enabled>>
         /\ UNCHANGED hassVars

Call_get_devices(t) ==
    Start(t, "get_devices", DevicesFrame(access_token, refresh_token))

Call_get_feeder_stats(t, device_id) ==
    Start(t, "get_feeder_stats",
          StatsFrame(device_id, access_token, refresh_token))

Call_get_device_attributes(t, device_id) ==
    Start(t, "get_device_attributes",
          AttributesFrame(device_id, access_token, refresh_token))

Call_send_feed_command(t, device_id, tm_min, portions) ==
    Start(t, "send_feed_command",
          FeedFrame(device_id, tm_min, portions, access_token, refresh_token))

(***************************************************************************)
(* The operations from the arrival of a response.                          *)
(***************************************************************************)
Awaiting(t, fn) == t \in enabled /\ Running(t) /\ Top(t).fn = fn

Issue(resp) == IF IssuesToken(resp) THEN issued + 1 ELSE issued

Resume_login(t, answers) ==
    /\ Awaiting(t, "login")
    /\ \E resp \in answers :
         LET r == Login(resp, access_token, refresh_token) IN
         /\ Allowed(resp)
         /\ Finish(t, r, Outcome(resp, "login"))
         /\ issued' = Issue(resp)
         /\ last' = Event("login", r.ret, TRUE, Top(t).pre_at, Top(t).pre_rt,
                          r, resp)
         /\ UNCHANGED <<enabled, sent, overlap>>

\* the response to a refresh request; when get_devices awaits the refresh
\* (frames below), it goes on with `return await self.get_devices()` or
\* `return []`
Resume_refresh_access_token(t, answers) ==
    /\ Awaiting(t, "refresh_access_token")
    /\ \E resp \in answers :
         LET r == Refresh(resp, access_token, refresh_token)
             callers == SubSeq(stack[t], 1, Len(stack[t]) - 1)
             outcome == Outcome(resp, "refresh_access_token")
         IN
         /\ Allowed(resp)
         /\ issued' = Issue(resp)
         /\ last' = Event("refresh_access_token", r.ret, TRUE,
                          Top(t).pre_at, Top(t).pre_rt, r, resp)
         /\ IF callers = <<>>
            THEN Finish(t, r, outcome) /\ UNCHANGED sent
            ELSE IF r.exc
            THEN Finish(t, Unwind(r, Len(callers)), outcome) /\ UNCHANGED sent
            ELSE IF r.ret = "True"
            THEN /\ Push(t, callers, DevicesFrame(r.at, r.rt))
                 /\ access_token' = r.at
                 /\ refresh_token' = r.rt
            ELSE /\ Finish(t, Unwind(Return("[]", r.at, r.rt), Len(callers)),
                           outcome)
                 /\ UNCHANGED sent
         /\ UNCHANGED <<enabled, overlap>>

\* the response to a device-list request
Resume_get_devices(t, answers) ==
    /\ Awaiting(t, "get_devices")
    /\ \E resp \in answers :
         LET at == access_token
             rt == refresh_token
             outcome == Outcome(resp, "get_devices")
         IN
         IF ~AuthExpired(resp)
         THEN /\ Finish(t, Unwind(DevicesTry(resp, at, rt), Len(stack[t])),
                        outcome)
              /\ UNCHANGED <<issued, enabled, sent, last, overlap>>
         ELSE IF ~Truthy(rt)
         THEN /\ Finish(t, Unwind(Return("[]", at, rt), Len(stack[t])), outcome)
              /\ last' = Event("refresh_access_token", "False", FALSE, at, rt,
                               Return("False", at, rt), Failure("none"))
              /\ UNCHANGED <<issued, enabled, sent, overlap>>
         ELSE /\ Len(stack[t]) < MaxDepth
              /\ Push(t, stack[t], RefreshFrame(at, rt))
              /\ UNCHANGED <<access_token, refresh_token, issued, enabled,
                             last, overlap>>

Resume_get_feeder_stats(t, answers) ==
    /\ Awaiting(t, "get_feeder_stats")
    /\ \E resp \in answers :
         /\ Finish(t, GetFeederStats(resp, access_token, refresh_token),
                   Outcome(resp, "get_feeder_stats"))
         /\ UNCHANGED <<issued, enabled, sent, last, overlap>>

Resume_get_device_attributes(t, answers) ==
    /\ Awaiting(t, "get_device_attributes")
    /\ \E resp \in answers :
         /\ Finish(t, GetDeviceAttributes(resp, access_token, refresh_token),
                   Outcome(resp, "get_device_attributes"))
         /\ UNCHANGED <<issued, enabled, sent, last, overlap>>

Resume_send_feed_command(t, answers) ==
    /\ Awaiting(t, "send_feed_command")
    /\ \E resp \in answers :
         /\ Finish(t, SendFeedCommand(resp, access_token, refresh_token),
                   Outcome(resp, "send_feed_command"))
         /\ UNCHANGED <<issued, enabled, sent, last, overlap>>

(***************************************************************************)
(* handle_feed_service.                                                    *)
(***************************************************************************)
\* call.data.get(key, default)
Get(value, default) == IF value = <<>> THEN default ELSE value[1]

\* the list one key contributes: [str] for a str, the list for a list,
\* nothing for an absent key or a value of another type
DeviceIds(field) ==
    IF field.kind = "str" THEN <<field.ids[1]>>
    ELSE IF field.kind = "list" THEN field.ids
    ELSE <<>>

\* target_device_ids: call.data["target"]["device_id"], and call.data["device_id"]
\* when that gave nothing
TargetDeviceIds(call) ==
    LET from_target == DeviceIds(call.target)
    IN  IF from_target = <<>> THEN DeviceIds(call.device_id) ELSE from_target

\* the api of the first entry whose coordinator.data holds the device, or None
ApiClient(our_device_id, data) ==
    LET owners == {entry_id \in DOMAIN data :
                     our_device_id \in data[entry_id].coordinator}
    IN  IF owners = {} THEN None
        ELSE data[CHOOSE entry_id \in owners : TRUE].api

RaiseService(s, message) ==
    [s EXCEPT !.state = "raised", !.error = message, !.request = NoRequest]

ReturnService(s) == [s EXCEPT !.state = "returned"]

NoDevicesSpecified == "No devices specified in target"
ClientNotFound == "API client not found for device "
FeedFailed == "Failed to send feed command to device "
NoneAreFeeders ==
    "None of the selected devices are HGSmart pet feeders. "
    \o "Please select a device from the HGSmart integration."

\* a handler that returns after the loop whatever it processed
EndOfLoopReturning(s) == ReturnService(s)

\* after the for loop
EndOfLoop(s) ==
    IF ~s.processed_any THEN RaiseService(s, NoneAreFeeders)
    ELSE ReturnService(s)

\* the for loop from its i-th device up to the next await of
\* send_feed_command, or to the end of the handler
RECURSIVE RunLoop(_, _, _, _, _, _)
RunLoop(s, i, data, tm_min, at, rt) ==
    IF i > Len(s.target_device_ids) THEN EndOfLoop([s EXCEPT !.i = i])
    ELSE
        LET ha_device_id == s.target_device_ids[i] IN
        IF ~Registered(ha_device_id)
        THEN RunLoop(s, i + 1, data, tm_min, at, rt)
        ELSE
            LET our_device_id == OurDeviceId(ha_device_id) IN
            IF ~Truthy(our_device_id)
            THEN RunLoop(s, i + 1, data, tm_min, at, rt)
            ELSE IF ApiClient(our_device_id, data) = None
            THEN RaiseService([s EXCEPT !.i = i],
                              ClientNotFound \o our_device_id)
            ELSE [s EXCEPT !.state = "awaiting", !.i = i,
                           !.request = FeedFrame(our_device_id, tm_min,
                                                 s.portions, at, rt)]

\* a loop that goes on to the next device after a failed command
OnFeedResultContinuing(s, success, data, tm_min, at, rt) ==
    LET our_device_id == s.request.args[1]
        fed == [s EXCEPT !.request = NoRequest,
                         !.fed = Append(@, [device_id |-> our_device_id,
                                            portions |-> s.request.args[3],
                                            success |-> success])]
    IN  RunLoop([fed EXCEPT !.processed_any = @ \/ success],
                s.i + 1, data, tm_min, at, rt)

\* the handler from the return of send_feed_command
OnFeedResult(s, success, data, tm_min, at, rt) ==
    LET our_device_id == s.request.args[1]
        fed == [s EXCEPT !.request = NoRequest,
                         !.fed = Append(@, [device_id |-> our_device_id,
                                            portions |-> s.request.args[3],
                                            success |-> success])]
    IN  IF ~success THEN RaiseService(fed, FeedFailed \o our_device_id)
        ELSE RunLoop([fed EXCEPT !.processed_any = TRUE],
                     s.i + 1, data, tm_min, at, rt)

\* the handler from the service call to its first await or its end
Handle_feed_service(calls, minutes) ==
    /\ svc.state = "idle"
    /\ \E call \in calls, tm_min \in minutes :
         LET ids == TargetDeviceIds(call)
             s == [IdleService EXCEPT !.call = call,
                                      !.target_device_ids = ids,
                                      !.portions = Get(call.portions, 1)]
         IN  svc' = IF ids = <<>> THEN RaiseService(s, NoDevicesSpecified)
                    ELSE RunLoop(s, 1, hass_data, tm_min,
                                 access_token, refresh_token)
    /\ UNCHANGED <<hass_data, unload>>
    /\ UNCHANGED clientVars

\* send_feed_command returns to the handler, which runs to its next await
\* or its end
Resume_handle_feed_service(answers, minutes) ==
    /\ svc.state = "awaiting"
    /\ \E resp \in answers, tm_min \in minutes :
         LET r == SendFeedCommand(resp, access_token, refresh_token)
         IN  /\ svc' = OnFeedResult(svc, r.ret = "True", hass_data, tm_min,
                                    r.at, r.rt)
             /\ access_token' = r.at
             /\ refresh_token' = r.rt
    /\ UNCHANGED <<hass_data, unload>>
    /\ UNCHANGED <<stack, open_sessions, result, issued, enabled, sent, last,
                   overlap>>

(***************************************************************************)
(* HGSmartManualFeedPortions.                                              *)
(***************************************************************************)
\* the values the entity accepts, in tenths: native_min_value up to
\* native_max_value
NumberValues == {v \in 10 * NativeMin .. 10 * NativeMax : v % 5 = 0}

\* int(value) of a value given in tenths
IntOfTenths(v) == v \div 10

\* async_set_native_value: the value the entity accepted is stored as an int
Async_set_native_value(entry_id, device_id) ==
    /\ entry_id \in DOMAIN hass_data
    /\ \E value \in NumberValues :
         hass_data' = [hass_data EXCEPT
                         ![entry_id].manual_feed_portions[device_id] =
                             IntOfTenths(value)]
    /\ UNCHANGED <<svc, unload>>
    /\ UNCHANGED clientVars

(***************************************************************************)
(* async_unload_entry.                                                     *)
(***************************************************************************)
\* hass.data[DOMAIN] after pop(entry_id)
Pop(data, entry_id) == [e \in (DOMAIN data) \ {entry_id} |-> data[e]]

\* from `if unload_ok:` on
UnloadEntry(unload_ok, data, entry_id) ==
    IF unload_ok
    THEN [data |-> Pop(data, entry_id),
          unload |->
              IF "close" \in ClientAttributes
              THEN [state |-> "returned", entry_id |-> entry_id,
                    ret |-> "True", exc |-> Empty, closed |-> TRUE]
              ELSE [state |-> "raised", entry_id |-> entry_id,
                    ret |-> None, exc |-> "AttributeError",
                    closed |-> FALSE]]
    ELSE [data |-> data,
          unload |-> [state |-> "returned", entry_id |-> entry_id,
                      ret |-> "False", exc |-> Empty, closed |-> FALSE]]

\* async_unload_entry of a loaded entry; async_unload_platforms answers
\* either way
Async_unload_entry(entry_id) ==
    /\ entry_id \in DOMAIN hass_data
    /\ \E unload_ok \in BOOLEAN :
         LET after == UnloadEntry(unload_ok, hass_data, entry_id)
         IN  /\ hass_data' = after.data
             /\ unload' = after.unload
    /\ UNCHANGED svc
    /\ UNCHANGED clientVars

(***************************************************************************)
(* Specifications.                                                         *)
(***************************************************************************)
\* local minutes and portion counts the feed command is sent at where the
\* encoding is not what is examined
SomeMinutes == {7, 59}
SomePortions == {5, 9}

Calls(t, minutes, portions) ==
    \/ Call_login(t)
    \/ Call_refresh_access_token(t)
    \/ Call_get_devices(t)
    \/ \E d \in Devices : Call_get_feeder_stats(t, d)
    \/ \E d \in Devices : Call_get_device_attributes(t, d)
    \/ \E d \in Devices, m \in minutes, p \in portions :
         Call_send_feed_command(t, d, m, p)

Resumes(t) ==
    \/ Resume_login(t, TokenResponses(issued + 1))
    \/ Resume_refresh_access_token(t, TokenResponses(issued + 1))
    \/ Resume_get_devices(t, DataResponses)
    \/ Resume_get_feeder_stats(t, DataResponses)
    \/ Resume_get_device_attributes(t, DataResponses)
    \/ Resume_send_feed_command(t, DataResponses)

\* one caller at a time, from the client as constructed
Next == \E t \in Tasks : Calls(t, SomeMinutes, SomePortions) \/ Resumes(t)

Spec == Init /\ [][Next]_vars

\* the feed command at every local minute and every portion count
NextCommand ==
    \E t \in Tasks :
        \/ \E d \in Devices, m \in Minutes, p \in Portions :
             Call_send_feed_command(t, d, m, p)
        \/ Resume_send_feed_command(t, DataResponses)

SpecCommand == Init /\ [][NextCommand]_vars

\* the answers examined with two callers: success, a code-200 body without
\* refreshToken, an application error, expiry, a transport error
SomeTokenResponses(n) ==
    {Json(200, "obj", AccessTok(n), RefreshTok(n)),
     Json(200, "obj", AccessTok(n), KeyAbsent),
     Json(500, KeyAbsent, KeyAbsent, KeyAbsent),
     Failure("error")}

SomeDataResponses ==
    {Json(200, "obj", KeyAbsent, KeyAbsent),
     Json(401, KeyAbsent, KeyAbsent, KeyAbsent),
     Failure("error")}

\* two callers interleaving at the awaits: the operation that refreshes and
\* one that does not
NextConcurrent ==
    \E t \in Tasks :
        \/ Call_get_devices(t)
        \/ \E d \in Devices : Call_get_feeder_stats(t, d)
        \/ Resume_get_devices(t, SomeDataResponses)
        \/ Resume_refresh_access_token(t, SomeTokenResponses(issued + 1))
        \/ Resume_get_feeder_stats(t, SomeDataResponses)

SpecConcurrent == InitConcurrent /\ [][NextConcurrent]_vars

\* the portion counts a service call carries where no schema limits them
ServicePortions == {0, 1, 9, 10}

\* lists of at most n device ids
Lists(n) == UNION {[1 .. k -> HaIds] : k \in 0 .. n}

\* the values of one key: absent, of another type, a str, a list
Fields(n) ==
    {AbsentField, Field("other", <<>>)}
    \cup {Field("str", <<h>>) : h \in HaIds}
    \cup {Field("list", ids) : ids \in Lists(n)}

\* service data; beside a target that names devices, device_id is absent or
\* names one feeder
ServiceCalls(portions, n) ==
    {Call(p, target, device_id) :
        p \in {<<>>} \cup {<<q>> : q \in portions},
        target \in Fields(n),
        device_id \in {AbsentField, Field("list", <<"h1">>)}}
    \cup
    {Call(p, target, device_id) :
        p \in {<<>>} \cup {<<q>> : q \in portions},
        target \in {AbsentField, Field("other", <<>>), Field("list", <<>>)},
        device_id \in Fields(n)}

\* the answers to a feed command: accepted, refused, a transport error
FeedResponses ==
    {Json(200, "obj", KeyAbsent, KeyAbsent),
     Json(500, KeyAbsent, KeyAbsent, KeyAbsent),
     Failure("error")}

\* the portion counts of the integration: the number entities and a service
\* call naming one device
NextPortions ==
    \/ \E entry_id \in Entries, device_id \in FeederIds :
         Async_set_native_value(entry_id, device_id)
    \/ Handle_feed_service(ServiceCalls(ServicePortions, 0), SomeMinutes)
    \/ Resume_handle_feed_service(FeedResponses, SomeMinutes)

SpecPortions == InitService /\ [][NextPortions]_vars

\* a feed service call over every shape of service data, with the entry
\* unloaded at any point
NextService ==
    \/ Handle_feed_service(ServiceCalls({5}, MaxTargets), SomeMinutes)
    \/ Resume_handle_feed_service(FeedResponses, SomeMinutes)
    \/ \E entry_id \in Entries : Async_unload_entry(entry_id)

SpecService == InitService /\ [][NextService]_vars



(***************************************************************************)
(* Properties.                                                             *)
(***************************************************************************)
Count(seq, x) == Cardinality({i \in DOMAIN seq : seq[i] = x})

Frames(t) == {stack[t][i] : i \in DOMAIN stack[t]}

Done(t) == result[t].state = "done"

\* C1: one get_devices call sends at most one refresh request and at most
\* two device-list requests, whatever the server answers (also when the
\* re-issued request is answered with 401 again).
C1_OneRefreshPerGetDevices ==
    \A t \in Tasks :
        result[t].op = "get_devices" =>
            /\ Count(sent[t], "refresh_access_token") <= 1
            /\ Count(sent[t], "get_devices") <= 2

\* C2: whenever login returns False, access_token and refresh_token hold the
\* values they held before login was called.
C2_LoginFailureKeepsTokens ==
    (last.fn = "login" /\ last.ret = "False") =>
        /\ last.post_at = last.pre_at
        /\ last.post_rt = last.pre_rt

\* C3: whenever refresh_access_token returns False, both tokens are unchanged
\* from before the call, and with no refresh token held no request was sent.
C3_RefreshFailureKeepsTokens ==
    (last.fn = "refresh_access_token" /\ last.ret = "False") =>
        /\ last.post_at = last.pre_at
        /\ last.post_rt = last.pre_rt
        /\ ~Truthy(last.pre_rt) => ~last.requested

\* what each operation returns for an application-level error code
FailureValue(op) ==
    CASE op \in {"login", "refresh_access_token", "send_feed_command"} -> "False"
      [] op = "get_devices" -> "[]"
      [] OTHER -> None

\* C4: no operation propagates an exception; for every outcome other than a
\* well-formed code-200 answer it returns its failure value (False, [], None).
C4_NeverRaises ==
    \A t \in Tasks :
        Done(t) =>
            /\ ~result[t].raised
            /\ result[t].outcome # "ok" => result[t].ret = FailureValue(result[t].op)

\* login answered with code 200 and a body without its token keys: False
C4_Witness ==
    /\ Done("t1")
    /\ result["t1"].op = "login"
    /\ result["t1"].outcome = "keys"
    /\ result["t1"].ret = "False"

ReadOps == {"get_feeder_stats", "get_device_attributes"}

\* C5: get_feeder_stats and get_device_attributes send exactly one request
\* per call and never a refresh request, leave access_token and
\* refresh_token unchanged, and return None on code 401 as on any failure.
C5_ReadsDoNotRefresh ==
    /\ [](\A t \in Tasks :
            result[t].op \in ReadOps =>
                /\ sent[t] = <<result[t].op>>
                /\ (Done(t) /\ result[t].outcome # "ok") => result[t].ret = None)
    /\ [][\A t \in Tasks :
            (result'[t].op \in ReadOps /\ stack'[t] # stack[t]) =>
                /\ access_token' = access_token
                /\ refresh_token' = refresh_token]_vars

\* get_feeder_stats answered 401 on a client that holds tokens
C5_Witness ==
    /\ Done("t1")
    /\ result["t1"].op = "get_feeder_stats"
    /\ result["t1"].outcome = "code401"
    /\ result["t1"].ret = None
    /\ access_token = AccessTok(1)
    /\ refresh_token = RefreshTok(1)

\* the two tokens come from the same response
IssuedTogether(a, r) ==
    \E n \in 1 .. MaxIssued : a = AccessTok(n) /\ r = RefreshTok(n)

Observed401(t) ==
    /\ result[t].op = "get_devices"
    /\ Count(sent[t], "refresh_access_token") >= 1

\* C6: when two operations run concurrently and both observe 401, then once
\* both have finished access_token and refresh_token are a pair issued
\* together by one response, and a re-issued request carries the token of a
\* successful refresh.
C6_ConcurrentRefreshKeepsPair ==
    /\ (\A t \in Tasks : Done(t) /\ Observed401(t) /\ overlap[t]) =>
            IssuedTogether(access_token, refresh_token)
    /\ \A t \in Tasks : \A i \in DOMAIN stack[t] :
         (i >= 2 /\ stack[t][i].fn = "get_devices") =>
             /\ IssuedTogether(stack[t][i].pre_at, stack[t][i].pre_rt)
             /\ stack[t][i].auth =
                  Authorization("Bearer " \o stack[t][i].pre_at)

\* C7: an operation never has more than one session open, and none after it
\* has returned.
C7_OneSessionAtATime ==
    \A t \in Tasks :
        /\ open_sessions[t] <= 1
        /\ ~Running(t) => open_sessions[t] = 0

\* n as two lowercase hexadecimal digits
Hex2(n) == HexDigits[(n \div 16) + 1] \o HexDigits[(n % 16) + 1]

\* C8: for every local minute m in 0..59 and portion count p in 1..9 the
\* command value is "0120", m as 2 hex digits, p as 2 hex digits: 8
\* characters (m=7,p=5: "01200705"; m=0,p=1: "01200001"; m=59,p=9:
\* "01203b09").
C8_CommandValue ==
    \A t \in Tasks : \A f \in Frames(t) :
        f.fn = "send_feed_command" =>
            LET m == f.args[2]
                p == f.args[3]
            IN  /\ m \in 0 .. 59 /\ p \in 1 .. 9
                /\ f.body = "0120" \o Hex2(m) \o Hex2(p)
                /\ Len(f.body) = 8
                /\ (m = 7 /\ p = 5) => f.body = "01200705"
                /\ (m = 0 /\ p = 1) => f.body = "01200001"
                /\ (m = 59 /\ p = 9) => f.body = "01203b09"

\* the feed request of minute 59 with 9 portions is in flight
C8_Witness ==
    \E f \in Frames("t1") :
        /\ f.fn = "send_feed_command"
        /\ f.args = <<"dev1", 59, 9>>
        /\ f.body = "01203b09"

\* C9 as claimed: every request other than login carries "Bearer <token>"
\* with the client's access_token at the time the request is built, also
\* before any successful login.
C9_AlwaysBearer ==
    \A t \in Tasks : \A f \in Frames(t) :
        f.fn # "login" =>
            f.auth = Authorization("Bearer " \o Str(f.pre_at))

\* C9 amended: a request other than login built while access_token is a
\* non-empty string carries "Bearer <access_token>"; built while it is None
\* or empty, send_feed_command carries "Bearer " and the text of the value,
\* and every other request carries no Authorization header.
C9_BearerWhenTokenHeld ==
    \A t \in Tasks : \A f \in Frames(t) :
        f.fn # "login" =>
            IF Truthy(f.pre_at)
            THEN f.auth = Authorization("Bearer " \o f.pre_at)
            ELSE IF f.fn = "send_feed_command"
            THEN f.auth = Authorization("Bearer " \o Str(f.pre_at))
            ELSE f.auth = NoAuthorization

\* the device-list request re-issued after a refresh carries the new token
C9_Witness ==
    /\ Len(stack["t1"]) = 2
    /\ Top("t1").fn = "get_devices"
    /\ access_token = AccessTok(2)
    /\ Top("t1").auth = Authorization("Bearer " \o AccessTok(2))
    /\ stack["t1"][1].auth = Authorization("Bearer " \o AccessTok(1))

\* C10: whenever login returns True, both tokens are the values carried by
\* that response, neither is None, and access_token is a non-empty string.
C10_LoginSuccessSetsTokens ==
    (last.fn = "login" /\ last.ret = "True") =>
        /\ last.post_at = last.resp_at
        /\ last.post_rt = last.resp_rt
        /\ last.post_at # None
        /\ last.post_rt # None
        /\ last.post_at # Empty

(***************************************************************************)
(* The integration: portion counts, the feed service, unloading.           *)
(***************************************************************************)
\* C11: every portion count the integration holds or hands to
\* send_feed_command lies in MIN_PORTIONS .. MAX_PORTIONS: the stored
\* manual-feed-portions value of every device after any sequence of
\* set-value operations, and the portion count of every feed command the
\* feed service sends.
C11_PortionsInVendorRange ==
    /\ \A entry_id \in DOMAIN hass_data, device_id \in FeederIds :
          hass_data[entry_id].manual_feed_portions[device_id] \in Portions
    /\ svc.request # NoRequest => svc.request.args[3] \in Portions
    /\ \A j \in 1 .. Len(svc.fed) : svc.fed[j].portions \in Portions

\* a device id names an HGSmart feeder: it is registered with an identifier
\* in the integration's domain
IsFeeder(ha_device_id) ==
    /\ ha_device_id \in DOMAIN Registry
    /\ \E identifier \in Registry[ha_device_id] : identifier[1] = Domain

FeederOf(ha_device_id) ==
    (CHOOSE identifier \in Registry[ha_device_id] : identifier[1] = Domain)[2]

\* the device ids a call lists under either key
ListedIds(call) ==
    {call.target.ids[j] : j \in 1 .. Len(call.target.ids)}
    \cup {call.device_id.ids[j] : j \in 1 .. Len(call.device_id.ids)}

\* C12: a feed service call that lists no device id under either key, or
\* only ids that are unregistered or carry no hgsmart identifier, ends in a
\* raised HomeAssistantError with no feed command sent; and a call that has
\* returned normally has had at least one feed command succeed.
C12_NoFeederRaises ==
    /\ (svc.state # "idle" /\ \A h \in ListedIds(svc.call) : ~IsFeeder(h))
         => /\ svc.state = "raised"
            /\ svc.error \in {NoDevicesSpecified, NoneAreFeeders}
            /\ svc.fed = <<>>
            /\ svc.request = NoRequest
    /\ svc.state = "returned"
         => \E j \in 1 .. Len(svc.fed) : svc.fed[j].success

\* a call listing an unregistered device and a device of another
\* integration has been refused
C12_Witness ==
    /\ svc.state = "raised"
    /\ svc.error = NoneAreFeeders
    /\ svc.call.target = Field("list", <<"h4", "h3">>)

\* the feeders among a list of device ids, in list order
RECURSIVE FeedersOf(_)
FeedersOf(ids) ==
    IF ids = <<>> THEN <<>>
    ELSE IF IsFeeder(Head(ids))
         THEN <<FeederOf(Head(ids))>> \o FeedersOf(Tail(ids))
    ELSE FeedersOf(Tail(ids))

\* the devices the call has been answered for, in the order of the answers
FedDevices == [j \in 1 .. Len(svc.fed) |-> svc.fed[j].device_id]

\* C13: the feed service sends its commands in list order and stops at the
\* first failure.  At every point of a call the commands answered so far are
\* those of the feeders of a prefix of the list, in list order; a failed
\* command is the last one of the call, and the call has then raised the
\* error naming that device with nothing more awaited; a device without an
\* API client raises the error naming it after the commands of the feeders
\* before it, all successful.
C13_StopsAtFirstFailure ==
    LET ids == svc.target_device_ids
        before == FeedersOf(SubSeq(ids, 1, svc.i - 1))
    IN  /\ \A j \in 1 .. Len(svc.fed) :
              ~svc.fed[j].success
                => /\ j = Len(svc.fed)
                   /\ svc.state = "raised"
                   /\ svc.error = FeedFailed \o svc.fed[j].device_id
                   /\ svc.request = NoRequest
                   /\ svc.i \in 1 .. Len(ids)
                   /\ IsFeeder(ids[svc.i])
                   /\ FedDevices = Append(before, FeederOf(ids[svc.i]))
        /\ svc.state = "awaiting"
             => /\ FedDevices = before
                /\ IsFeeder(ids[svc.i])
                /\ svc.request.args[1] = FeederOf(ids[svc.i])
        /\ svc.state = "returned" => FedDevices = FeedersOf(ids)
        /\ (svc.state = "raised" /\ svc.error \notin
                {NoDevicesSpecified, NoneAreFeeders}
                \cup {FeedFailed \o d : d \in FeederIds})
             => /\ svc.i \in 1 .. Len(ids)
                /\ IsFeeder(ids[svc.i])
                /\ svc.error = ClientNotFound \o FeederOf(ids[svc.i])
                /\ FedDevices = before
                /\ \A j \in 1 .. Len(svc.fed) : svc.fed[j].success
                /\ svc.request = NoRequest

\* the second of three devices failed after the first was fed: the third
\* was sent nothing
C13_Witness ==
    /\ svc.state = "raised"
    /\ svc.target_device_ids = <<"h1", "h2", "h1">>
    /\ svc.error = FeedFailed \o "dev2"
    /\ Len(svc.fed) = 2
    /\ svc.fed[1].success

\* C14: once async_unload_entry has ended for an entry, either the platforms
\* unloaded and it returned True without raising, with the entry's record
\* removed from hass.data[DOMAIN] and the entry's API client closed, or the
\* platforms failed to unload and it returned False with the record in
\* place.
C14_UnloadReleasesEntry ==
    unload.state # "none"
      => \/ /\ unload.state = "returned"
            /\ unload.ret = "True"
            /\ unload.closed
            /\ unload.entry_id \notin DOMAIN hass_data
         \/ /\ unload.state = "returned"
            /\ unload.ret = "False"
            /\ unload.entry_id \in DOMAIN hass_data

=============================================================================
